---- MODULE Spec2Model ----
(***************************************************************************)
(* The four loops of mmengine/runner/loops.py (EpochBasedTrainLoop,        *)
(* IterBasedTrainLoop, ValLoop, TestLoop) as one state machine over the    *)
(* runner they share.  Every statement of a run() / run_epoch() /          *)
(* run_iter() body is one action; the Python call stack is the variable    *)
(* stack, an exception unwinds it completely (loops.py has no try/except). *)
(***************************************************************************)
EXTENDS Integers, Sequences, FiniteSets

(* ------------------------------ bounds -------------------------------- *)
\* largest max_epochs / max_iters a train loop is constructed with
MaxMax == 2
\* largest number of batches of the train dataloader
MaxTrainLen == 2
\* largest number of batches of the val and of the test dataloader
MaxEvalLen == 2
\* largest validation interval
MaxInterval == 3
\* samples per batch of an evaluation dataset (len(dataset) = batches * this)
BatchSize == 2
\* number of top-level run() calls made on one runner
MaxRuns == 2

(* ------------------------------ state --------------------------------- *)
VARIABLES
    cfg,             \* constructor arguments of the loops (fixed after Init)
    epoch,           \* runner._epoch
    iter,            \* runner._iter
    cur_dataloader,  \* runner.cur_dataloader
    outputs,         \* runner.outputs
    mode,            \* runner.model.training: "train" or "eval"
    cursor,          \* IterBasedTrainLoop.dataloader: batches already drawn
    acc,             \* the evaluators' accumulated results, per loop
    stack,           \* call stack of loop frames, innermost last
    events,          \* what the current top-level run has done so far
    status,          \* "idle", "running", "done" (returned), "failed" (raised)
    error,           \* the exception that ended the run
    start,           \* the loop and the counters of the current top-level run
    runs             \* number of top-level runs started

vars == <<cfg, epoch, iter, cur_dataloader, outputs, mode, cursor, acc,
          stack, events, status, error, start, runs>>

ctx == <<epoch, iter, cur_dataloader, outputs, mode, cursor, acc>>

(* ------------------------- external collaborators --------------------- *)
NoData == 0
NoIdx == 0 - 1
NoOutputs == [kind |-> "none", data |-> NoData]
NoMetric == [batches |-> <<>>, size |-> 0 - 1]
NoError == [kind |-> "none", loop |-> "none", pc |-> "none", depth |-> 0]

\* names of the scalars in outputs['log_vars'], in dict order
LogVars == <<"loss">>
\* names of the metrics the evaluator returns, in dict order
MetricNames == <<"acc", "mAP">>

\* len(loop.dataloader), in batches
LenOf(dl) ==
    CASE dl = "train" -> cfg.trainLen
      [] dl = "val"   -> cfg.valLen
      [] dl = "test"  -> cfg.testLen

\* the i-th batch (0-based) a dataloader yields
BatchOf(dl, i) ==
    CASE dl = "train" -> 1 + i
      [] dl = "val"   -> 11 + i
      [] dl = "test"  -> 21 + i

\* len(loop.dataloader.dataset), in samples
DatasetLen(dl) == LenOf(dl) * BatchSize

\* runner.model(data_batch, return_loss=...)
Model(data, return_loss) ==
    [kind |-> IF return_loss THEN "loss" ELSE "pred", data |-> data]

\* evaluator.process(data_batch, outputs)
Process(a, data, out) == Append(a, data)

\* evaluator.evaluate(size): the metric mapping; the accumulation is reset
Evaluate(a, size) == [batches |-> a, size |-> size]

\* mutant: evaluate() keeps what was accumulated
EvaluateReset_Mut(a) == a

\* the accumulation evaluator.evaluate() leaves behind: it starts afresh
EvaluateReset(a) == <<>>

(* ------------------------------ helpers ------------------------------- *)
Top == stack[Len(stack)]

At(l, p) == stack # <<>> /\ Top.loop = l /\ Top.pc = p

Goto(p) == stack' = [stack EXCEPT ![Len(stack)].pc = p]

Frame(l) == [loop |-> l, pc |-> "set_dl", idx |-> 0, data |-> NoData,
             out |-> NoOutputs, metrics |-> NoMetric]

\* one observable step of the running loop, with the runner as it is then
Ev(kind, name, idx, data, out, val) ==
    [kind |-> kind, name |-> name, idx |-> idx, data |-> data, out |-> out,
     val |-> val, key |-> "", loop |-> Top.loop, depth |-> Len(stack),
     epoch |-> epoch, iter |-> iter, cursor |-> cursor,
     dl |-> cur_dataloader, mode |-> mode, lastOut |-> outputs]

Emit(e) == events' = Append(events, e)

\* runner.call_hook(name, batch_idx=idx, data_batch=data, outputs=out)
call_hook(name, idx, data, out) ==
    Emit(Ev("hook", name, idx, data, out, NoMetric))

\* the return of a run(): the frame is popped; the outermost return ends the run
Return ==
    /\ stack' = SubSeq(stack, 1, Len(stack) - 1)
    /\ status' = IF Len(stack) = 1 THEN "done" ELSE status

\* mutant: the caller of the failing run() catches the exception
Unwind_Mut ==
    /\ stack' = SubSeq(stack, 1, Len(stack) - 1)
    /\ status' = "failed"

\* an exception leaves every run() on the stack: no frame catches it
Unwind ==
    /\ stack' = <<>>
    /\ status' = "failed"

\* the for-loop over a dict of scalars: one update_log per entry
LogEvents(prefix, names, val) ==
    [i \in 1..Len(names) |->
        [Ev("log", prefix, NoIdx, NoData, NoOutputs, val)
            EXCEPT !.key = names[i]]]

(* ------------------------------- Init --------------------------------- *)
\* interval = 0 stands for runner.val_loop is None
Configs ==
    [regime   : {"epoch", "iter"},
     max      : 0..MaxMax,
     trainLen : 0..MaxTrainLen,
     valLen   : 0..MaxEvalLen,
     testLen  : 0..MaxEvalLen,
     interval : 0..MaxInterval]

Init ==
    /\ cfg \in Configs
    /\ epoch = 0
    /\ iter = 0
    /\ cur_dataloader = "none"
    /\ outputs = NoOutputs
    /\ mode \in {"train", "eval"}
    /\ cursor = 0
    /\ acc = [l \in {"val", "test"} |-> <<>>]
    /\ stack = <<>>
    /\ events = <<>>
    /\ status = "idle"
    /\ error = NoError
    /\ start = [loop |-> "none", epoch |-> 0, iter |-> 0,
                prevLoop |-> "none", prevMetrics |-> NoMetric]
    /\ runs = 0

\* EpochBasedTrainLoop._max_iters, computed by the constructor
EpochMaxIters == cfg.max * LenOf("train")

(* ----------------------- the runner calls run() ------------------------ *)
IsEvaluate(e) == e.kind = "evaluate"

\* the metrics of the last evaluator.evaluate() of the current top-level run
LastEvaluate ==
    LET E == SelectSeq(events, IsEvaluate)
    IN  IF E = <<>> THEN NoMetric ELSE E[Len(E)].val

\* start also remembers the run before: its loop and the metrics it computed
Call(l) ==
    /\ status \in {"idle", "done"}
    /\ stack = <<>>
    /\ runs < MaxRuns
    /\ stack' = <<Frame(l)>>
    /\ events' = <<>>
    /\ status' = "running"
    /\ start' = [loop |-> l, epoch |-> epoch, iter |-> iter,
                 prevLoop |-> start.loop, prevMetrics |-> LastEvaluate]
    /\ runs' = runs + 1
    /\ UNCHANGED <<cfg, ctx, error>>

RunTrain == Call(cfg.regime)

RunVal == cfg.interval > 0 /\ Call("val")

RunTest == Call("test")

(* ----------------------- EpochBasedTrainLoop --------------------------- *)
\* self.runner.cur_dataloader = self.dataloader
ETL_run_set_dl ==
    /\ At("epoch", "set_dl")
    /\ cur_dataloader' = "train"
    /\ Goto("before_train")
    /\ UNCHANGED <<cfg, epoch, iter, outputs, mode, cursor, acc, events,
                   status, error, start, runs>>

ETL_run_before_train ==
    /\ At("epoch", "before_train")
    /\ call_hook("before_train", NoIdx, NoData, NoOutputs)
    /\ Goto("while")
    /\ UNCHANGED <<cfg, ctx, status, error, start, runs>>

\* mutant: the loop stops one epoch early
ETL_run_while_Early ==
    /\ At("epoch", "while")
    /\ Goto(IF epoch < cfg.max - 1 THEN "before_train_epoch" ELSE "after_train")
    /\ UNCHANGED <<cfg, ctx, events, status, error, start, runs>>

\* mutant: the loop condition off by one (<= for <)
ETL_run_while_Mut ==
    /\ At("epoch", "while")
    /\ Goto(IF epoch <= cfg.max THEN "before_train_epoch" ELSE "after_train")
    /\ UNCHANGED <<cfg, ctx, events, status, error, start, runs>>

\* while self.runner._epoch < self._max_epochs
ETL_run_while ==
    /\ At("epoch", "while")
    /\ Goto(IF epoch < cfg.max THEN "before_train_epoch" ELSE "after_train")
    /\ UNCHANGED <<cfg, ctx, events, status, error, start, runs>>

ETL_run_epoch_before_train_epoch ==
    /\ At("epoch", "before_train_epoch")
    /\ call_hook("before_train_epoch", NoIdx, NoData, NoOutputs)
    /\ Goto("model_train")
    /\ UNCHANGED <<cfg, ctx, status, error, start, runs>>

\* self.runner.model.train(); enumerate(self.dataloader) starts a fresh pass
ETL_run_epoch_model_train ==
    /\ At("epoch", "model_train")
    /\ mode' = "train"
    /\ Emit(Ev("mode", "train", NoIdx, NoData, NoOutputs, NoMetric))
    /\ stack' = [stack EXCEPT ![Len(stack)].pc = "for",
                              ![Len(stack)].idx = 0]
    /\ UNCHANGED <<cfg, epoch, iter, cur_dataloader, outputs, cursor, acc,
                   status, error, start, runs>>

\* for idx, data_batch in enumerate(self.dataloader)
ETL_run_epoch_for ==
    /\ At("epoch", "for")
    /\ IF Top.idx < LenOf("train")
       THEN /\ stack' = [stack EXCEPT
                   ![Len(stack)].pc = "before_train_iter",
                   ![Len(stack)].data = BatchOf("train", Top.idx)]
            /\ Emit(Ev("draw", "train", Top.idx, BatchOf("train", Top.idx),
                       NoOutputs, NoMetric))
       ELSE /\ Goto("after_train_epoch")
            /\ UNCHANGED events
    /\ UNCHANGED <<cfg, ctx, status, error, start, runs>>

ETL_run_iter_before_train_iter ==
    /\ At("epoch", "before_train_iter")
    /\ call_hook("before_train_iter", Top.idx, Top.data, NoOutputs)
    /\ Goto("model")
    /\ UNCHANGED <<cfg, ctx, status, error, start, runs>>

\* self.runner.outputs = self.runner.model(data_batch, return_loss=True)
ETL_run_iter_model ==
    /\ At("epoch", "model")
    /\ outputs' = Model(Top.data, TRUE)
    /\ Emit(Ev("invoke", "loss", Top.idx, Top.data, Model(Top.data, TRUE),
               NoMetric))
    /\ Goto("log")
    /\ UNCHANGED <<cfg, epoch, iter, cur_dataloader, mode, cursor, acc,
                   status, error, start, runs>>

\* for key, value in outputs['log_vars'].items(): update_log(f'train/{key}')
ETL_run_iter_log ==
    /\ At("epoch", "log")
    /\ events' = events \o LogEvents("train", LogVars, NoMetric)
    /\ Goto("after_train_iter")
    /\ UNCHANGED <<cfg, ctx, status, error, start, runs>>

\* mutant: the hook is given the global iteration, not the index in the epoch
ETL_run_iter_after_train_iter_Mut ==
    /\ At("epoch", "after_train_iter")
    /\ call_hook("after_train_iter", iter, Top.data, outputs)
    /\ Goto("iter_inc")
    /\ UNCHANGED <<cfg, ctx, status, error, start, runs>>

ETL_run_iter_after_train_iter ==
    /\ At("epoch", "after_train_iter")
    /\ call_hook("after_train_iter", Top.idx, Top.data, outputs)
    /\ Goto("iter_inc")
    /\ UNCHANGED <<cfg, ctx, status, error, start, runs>>

\* self.runner._iter += 1, and enumerate moves to the next index
ETL_run_iter_iter_inc ==
    /\ At("epoch", "iter_inc")
    /\ iter' = iter + 1
    /\ stack' = [stack EXCEPT ![Len(stack)].pc = "for",
                              ![Len(stack)].idx = Top.idx + 1]
    /\ UNCHANGED <<cfg, epoch, cur_dataloader, outputs, mode, cursor, acc,
                   events, status, error, start, runs>>

\* mutant: the epoch counter is incremented before the hook is dispatched
ETL_run_epoch_after_train_epoch_Mut ==
    /\ At("epoch", "after_train_epoch")
    /\ epoch' = epoch + 1
    /\ Emit([Ev("hook", "after_train_epoch", NoIdx, NoData, NoOutputs,
                NoMetric) EXCEPT !.epoch = epoch + 1])
    /\ Goto("val_check")
    /\ UNCHANGED <<cfg, iter, cur_dataloader, outputs, mode, cursor, acc,
                   status, error, start, runs>>

ETL_run_epoch_after_train_epoch ==
    /\ At("epoch", "after_train_epoch")
    /\ call_hook("after_train_epoch", NoIdx, NoData, NoOutputs)
    /\ Goto("epoch_inc")
    /\ UNCHANGED <<cfg, ctx, status, error, start, runs>>

\* self.runner._epoch += 1
ETL_run_epoch_epoch_inc ==
    /\ At("epoch", "epoch_inc")
    /\ epoch' = epoch + 1
    /\ Goto("val_check")
    /\ UNCHANGED <<cfg, iter, cur_dataloader, outputs, mode, cursor, acc,
                   events, status, error, start, runs>>

\* mutant: the interval is tested against the epoch before its increment
ETL_run_val_check_Mut ==
    /\ At("epoch", "val_check")
    /\ IF cfg.interval > 0 /\ (epoch - 1) % cfg.interval = 0
       THEN stack' = Append([stack EXCEPT ![Len(stack)].pc = "while"],
                            Frame("val"))
       ELSE Goto("while")
    /\ UNCHANGED <<cfg, ctx, events, status, error, start, runs>>

\* if val_loop is not None and _epoch % val_loop.interval == 0: val_loop.run()
ETL_run_val_check ==
    /\ At("epoch", "val_check")
    /\ IF cfg.interval > 0 /\ epoch % cfg.interval = 0
       THEN stack' = Append([stack EXCEPT ![Len(stack)].pc = "while"],
                            Frame("val"))
       ELSE Goto("while")
    /\ UNCHANGED <<cfg, ctx, events, status, error, start, runs>>

ETL_run_after_train ==
    /\ At("epoch", "after_train")
    /\ call_hook("after_train", NoIdx, NoData, NoOutputs)
    /\ Return
    /\ UNCHANGED <<cfg, ctx, error, start, runs>>

(* ------------------------ IterBasedTrainLoop --------------------------- *)
\* self.runner.cur_dataloader = self.dataloader
ITL_run_set_dl ==
    /\ At("iter", "set_dl")
    /\ cur_dataloader' = "train"
    /\ Goto("before_train")
    /\ UNCHANGED <<cfg, epoch, iter, outputs, mode, cursor, acc, events,
                   status, error, start, runs>>

ITL_run_before_train ==
    /\ At("iter", "before_train")
    /\ call_hook("before_train", NoIdx, NoData, NoOutputs)
    /\ Goto("before_train_epoch")
    /\ UNCHANGED <<cfg, ctx, status, error, start, runs>>

ITL_run_before_train_epoch ==
    /\ At("iter", "before_train_epoch")
    /\ call_hook("before_train_epoch", NoIdx, NoData, NoOutputs)
    /\ Goto("while")
    /\ UNCHANGED <<cfg, ctx, status, error, start, runs>>

\* mutant: the loop condition off by one (<= for <)
ITL_run_while_Mut ==
    /\ At("iter", "while")
    /\ Goto(IF iter <= cfg.max THEN "model_train" ELSE "after_train_epoch")
    /\ UNCHANGED <<cfg, ctx, events, status, error, start, runs>>

\* while self.runner._iter < self._max_iters
ITL_run_while ==
    /\ At("iter", "while")
    /\ Goto(IF iter < cfg.max THEN "model_train" ELSE "after_train_epoch")
    /\ UNCHANGED <<cfg, ctx, events, status, error, start, runs>>

\* mutant: the loop body does not put the model back in training mode
ITL_run_model_train_Mut ==
    /\ At("iter", "model_train")
    /\ Goto("next")
    /\ UNCHANGED <<cfg, ctx, events, status, error, start, runs>>

\* self.runner.model.train()
ITL_run_model_train ==
    /\ At("iter", "model_train")
    /\ mode' = "train"
    /\ Emit(Ev("mode", "train", NoIdx, NoData, NoOutputs, NoMetric))
    /\ Goto("next")
    /\ UNCHANGED <<cfg, epoch, iter, cur_dataloader, outputs, cursor, acc,
                   status, error, start, runs>>

\* data_batch = next(self.dataloader), the iterator made by the constructor
ITL_run_next ==
    /\ At("iter", "next")
    /\ cursor < LenOf("train")
    /\ cursor' = cursor + 1
    /\ stack' = [stack EXCEPT ![Len(stack)].pc = "before_train_iter",
                              ![Len(stack)].data = BatchOf("train", cursor)]
    /\ Emit(Ev("draw", "train", cursor, BatchOf("train", cursor), NoOutputs,
               NoMetric))
    /\ UNCHANGED <<cfg, epoch, iter, cur_dataloader, outputs, mode, acc,
                   status, error, start, runs>>

\* mutant: exhaustion is caught and ends the while loop quietly
ITL_run_next_StopIteration_Mut ==
    /\ At("iter", "next")
    /\ cursor >= LenOf("train")
    /\ Goto("after_train_epoch")
    /\ UNCHANGED <<cfg, ctx, events, status, error, start, runs>>

\* next() on the exhausted iterator raises StopIteration, which nothing catches
ITL_run_next_StopIteration ==
    /\ At("iter", "next")
    /\ cursor >= LenOf("train")
    /\ Unwind
    /\ error' = [kind |-> "StopIteration", loop |-> Top.loop, pc |-> Top.pc,
                 depth |-> Len(stack)]
    /\ UNCHANGED <<cfg, ctx, events, start, runs>>

\* mutant: the hook is given the number of batches drawn, one too many
ITL_run_iter_before_train_iter_Mut ==
    /\ At("iter", "before_train_iter")
    /\ call_hook("before_train_iter", cursor, Top.data, NoOutputs)
    /\ Goto("model")
    /\ UNCHANGED <<cfg, ctx, status, error, start, runs>>

\* batch_idx=self.runner._iter
ITL_run_iter_before_train_iter ==
    /\ At("iter", "before_train_iter")
    /\ call_hook("before_train_iter", iter, Top.data, NoOutputs)
    /\ Goto("model")
    /\ UNCHANGED <<cfg, ctx, status, error, start, runs>>

\* self.runner.outputs = self.runner.model(data_batch, return_loss=True)
ITL_run_iter_model ==
    /\ At("iter", "model")
    /\ outputs' = Model(Top.data, TRUE)
    /\ Emit(Ev("invoke", "loss", iter, Top.data, Model(Top.data, TRUE),
               NoMetric))
    /\ Goto("log")
    /\ UNCHANGED <<cfg, epoch, iter, cur_dataloader, mode, cursor, acc,
                   status, error, start, runs>>

\* for key, value in outputs['log_vars'].items(): update_log(f'train/{key}')
ITL_run_iter_log ==
    /\ At("iter", "log")
    /\ events' = events \o LogEvents("train", LogVars, NoMetric)
    /\ Goto("after_train_iter")
    /\ UNCHANGED <<cfg, ctx, status, error, start, runs>>

ITL_run_iter_after_train_iter ==
    /\ At("iter", "after_train_iter")
    /\ call_hook("after_train_iter", iter, Top.data, outputs)
    /\ Goto("iter_inc")
    /\ UNCHANGED <<cfg, ctx, status, error, start, runs>>

\* mutant: the iteration counter is advanced twice
ITL_run_iter_iter_inc_Mut ==
    /\ At("iter", "iter_inc")
    /\ iter' = iter + 2
    /\ Goto("val_check")
    /\ UNCHANGED <<cfg, epoch, cur_dataloader, outputs, mode, cursor, acc,
                   events, status, error, start, runs>>

\* self.runner._iter += 1
ITL_run_iter_iter_inc ==
    /\ At("iter", "iter_inc")
    /\ iter' = iter + 1
    /\ Goto("val_check")
    /\ UNCHANGED <<cfg, epoch, cur_dataloader, outputs, mode, cursor, acc,
                   events, status, error, start, runs>>

\* mutant: the interval is tested against the iteration about to start
ITL_run_val_check_Mut ==
    /\ At("iter", "val_check")
    /\ IF cfg.interval > 0 /\ (iter + 1) % cfg.interval = 0
       THEN stack' = Append([stack EXCEPT ![Len(stack)].pc = "while"],
                            Frame("val"))
       ELSE Goto("while")
    /\ UNCHANGED <<cfg, ctx, events, status, error, start, runs>>

\* if val_loop is not None and _iter % val_loop.interval == 0: val_loop.run()
ITL_run_val_check ==
    /\ At("iter", "val_check")
    /\ IF cfg.interval > 0 /\ iter % cfg.interval = 0
       THEN stack' = Append([stack EXCEPT ![Len(stack)].pc = "while"],
                            Frame("val"))
       ELSE Goto("while")
    /\ UNCHANGED <<cfg, ctx, events, status, error, start, runs>>

ITL_run_after_train_epoch ==
    /\ At("iter", "after_train_epoch")
    /\ call_hook("after_train_epoch", NoIdx, NoData, NoOutputs)
    /\ Goto("after_train")
    /\ UNCHANGED <<cfg, ctx, status, error, start, runs>>

ITL_run_after_train ==
    /\ At("iter", "after_train")
    /\ call_hook("after_train", NoIdx, NoData, NoOutputs)
    /\ Return
    /\ UNCHANGED <<cfg, ctx, error, start, runs>>

(* ------------------------------ ValLoop -------------------------------- *)
\* self.runner.cur_dataloader = self.dataloader
Val_run_set_dl ==
    /\ At("val", "set_dl")
    /\ cur_dataloader' = "val"
    /\ Goto("before")
    /\ UNCHANGED <<cfg, epoch, iter, outputs, mode, cursor, acc, events,
                   status, error, start, runs>>

Val_run_before ==
    /\ At("val", "before")
    /\ call_hook("before_val", NoIdx, NoData, NoOutputs)
    /\ Goto("before_epoch")
    /\ UNCHANGED <<cfg, ctx, status, error, start, runs>>

Val_run_before_epoch ==
    /\ At("val", "before_epoch")
    /\ call_hook("before_val_epoch", NoIdx, NoData, NoOutputs)
    /\ Goto("model_eval")
    /\ UNCHANGED <<cfg, ctx, status, error, start, runs>>

\* self.runner.model.eval(); enumerate(self.dataloader) starts a fresh pass
Val_run_model_eval ==
    /\ At("val", "model_eval")
    /\ mode' = "eval"
    /\ Emit(Ev("mode", "eval", NoIdx, NoData, NoOutputs, NoMetric))
    /\ stack' = [stack EXCEPT ![Len(stack)].pc = "for",
                              ![Len(stack)].idx = 0]
    /\ UNCHANGED <<cfg, epoch, iter, cur_dataloader, outputs, cursor, acc,
                   status, error, start, runs>>

\* mutant: the validation pass also advances the train loop's iterator
Val_run_for_Mut ==
    /\ At("val", "for")
    /\ IF Top.idx < LenOf("val")
       THEN /\ stack' = [stack EXCEPT
                   ![Len(stack)].pc = "before_iter",
                   ![Len(stack)].data = BatchOf("val", Top.idx)]
            /\ Emit(Ev("draw", "val", Top.idx, BatchOf("val", Top.idx),
                       NoOutputs, NoMetric))
            /\ cursor' = cursor + 1
       ELSE /\ Goto("evaluate")
            /\ UNCHANGED <<events, cursor>>
    /\ UNCHANGED <<cfg, epoch, iter, cur_dataloader, outputs, mode, acc,
                   status, error, start, runs>>

\* for idx, data_batch in enumerate(self.dataloader)
Val_run_for ==
    /\ At("val", "for")
    /\ IF Top.idx < LenOf("val")
       THEN /\ stack' = [stack EXCEPT
                   ![Len(stack)].pc = "before_iter",
                   ![Len(stack)].data = BatchOf("val", Top.idx)]
            /\ Emit(Ev("draw", "val", Top.idx, BatchOf("val", Top.idx),
                       NoOutputs, NoMetric))
       ELSE /\ Goto("evaluate")
            /\ UNCHANGED events
    /\ UNCHANGED <<cfg, ctx, status, error, start, runs>>

Val_run_iter_before_iter ==
    /\ At("val", "before_iter")
    /\ call_hook("before_val_iter", Top.idx, Top.data, NoOutputs)
    /\ Goto("model")
    /\ UNCHANGED <<cfg, ctx, status, error, start, runs>>

\* outputs = self.runner.model(data_batch), a local of run_iter
Val_run_iter_model ==
    /\ At("val", "model")
    /\ stack' = [stack EXCEPT ![Len(stack)].pc = "process",
                              ![Len(stack)].out = Model(Top.data, FALSE)]
    /\ Emit(Ev("invoke", "pred", Top.idx, Top.data, Model(Top.data, FALSE),
               NoMetric))
    /\ UNCHANGED <<cfg, ctx, status, error, start, runs>>

\* self.evaluator.process(data_batch, outputs)
Val_run_iter_process ==
    /\ At("val", "process")
    /\ acc' = [acc EXCEPT !["val"] = Process(@, Top.data, Top.out)]
    /\ Emit(Ev("process", "val", Top.idx, Top.data, Top.out, NoMetric))
    /\ Goto("after_iter")
    /\ UNCHANGED <<cfg, epoch, iter, cur_dataloader, outputs, mode, cursor,
                   status, error, start, runs>>

\* mutant: run_iter counts a validation batch as a training iteration
Val_run_iter_after_iter_Mut ==
    /\ At("val", "after_iter")
    /\ call_hook("after_val_iter", Top.idx, Top.data, Top.out)
    /\ iter' = iter + 1
    /\ stack' = [stack EXCEPT ![Len(stack)].pc = "for",
                              ![Len(stack)].idx = Top.idx + 1]
    /\ UNCHANGED <<cfg, epoch, cur_dataloader, outputs, mode, cursor, acc,
                   status, error, start, runs>>

\* call_hook('after_val_iter', ..., outputs=outputs); enumerate moves on
Val_run_iter_after_iter ==
    /\ At("val", "after_iter")
    /\ call_hook("after_val_iter", Top.idx, Top.data, Top.out)
    /\ stack' = [stack EXCEPT ![Len(stack)].pc = "for",
                              ![Len(stack)].idx = Top.idx + 1]
    /\ UNCHANGED <<cfg, ctx, status, error, start, runs>>

\* metrics = self.evaluator.evaluate(len(self.dataloader.dataset))
Val_run_evaluate ==
    /\ At("val", "evaluate")
    /\ stack' = [stack EXCEPT
            ![Len(stack)].pc = "log",
            ![Len(stack)].metrics = Evaluate(acc["val"], DatasetLen("val"))]
    /\ acc' = [acc EXCEPT !["val"] = EvaluateReset(@)]
    /\ Emit(Ev("evaluate", "val", DatasetLen("val"), NoData, NoOutputs,
               Evaluate(acc["val"], DatasetLen("val"))))
    /\ UNCHANGED <<cfg, epoch, iter, cur_dataloader, outputs, mode, cursor,
                   status, error, start, runs>>

\* for key, value in metrics.items(): update_log(f'val/{key}', value)
Val_run_log ==
    /\ At("val", "log")
    /\ events' = events \o LogEvents("val", MetricNames, Top.metrics)
    /\ Goto("after_epoch")
    /\ UNCHANGED <<cfg, ctx, status, error, start, runs>>

Val_run_after_epoch ==
    /\ At("val", "after_epoch")
    /\ call_hook("after_val_epoch", NoIdx, NoData, NoOutputs)
    /\ Goto("after")
    /\ UNCHANGED <<cfg, ctx, status, error, start, runs>>

Val_run_after ==
    /\ At("val", "after")
    /\ call_hook("after_val", NoIdx, NoData, NoOutputs)
    /\ Return
    /\ UNCHANGED <<cfg, ctx, error, start, runs>>

(* ------------------------------ TestLoop -------------------------------- *)
\* self.runner.cur_dataloader = self.dataloader
Test_run_set_dl ==
    /\ At("test", "set_dl")
    /\ cur_dataloader' = "test"
    /\ Goto("before")
    /\ UNCHANGED <<cfg, epoch, iter, outputs, mode, cursor, acc, events,
                   status, error, start, runs>>

Test_run_before ==
    /\ At("test", "before")
    /\ call_hook("before_test", NoIdx, NoData, NoOutputs)
    /\ Goto("before_epoch")
    /\ UNCHANGED <<cfg, ctx, status, error, start, runs>>

Test_run_before_epoch ==
    /\ At("test", "before_epoch")
    /\ call_hook("before_test_epoch", NoIdx, NoData, NoOutputs)
    /\ Goto("model_eval")
    /\ UNCHANGED <<cfg, ctx, status, error, start, runs>>

\* self.runner.model.eval(); enumerate(self.dataloader) starts a fresh pass
Test_run_model_eval ==
    /\ At("test", "model_eval")
    /\ mode' = "eval"
    /\ Emit(Ev("mode", "eval", NoIdx, NoData, NoOutputs, NoMetric))
    /\ stack' = [stack EXCEPT ![Len(stack)].pc = "for",
                              ![Len(stack)].idx = 0]
    /\ UNCHANGED <<cfg, epoch, iter, cur_dataloader, outputs, cursor, acc,
                   status, error, start, runs>>

\* for idx, data_batch in enumerate(self.dataloader)
Test_run_for ==
    /\ At("test", "for")
    /\ IF Top.idx < LenOf("test")
       THEN /\ stack' = [stack EXCEPT
                   ![Len(stack)].pc = "before_iter",
                   ![Len(stack)].data = BatchOf("test", Top.idx)]
            /\ Emit(Ev("draw", "test", Top.idx, BatchOf("test", Top.idx),
                       NoOutputs, NoMetric))
       ELSE /\ Goto("evaluate")
            /\ UNCHANGED events
    /\ UNCHANGED <<cfg, ctx, status, error, start, runs>>

Test_run_iter_before_iter ==
    /\ At("test", "before_iter")
    /\ call_hook("before_test_iter", Top.idx, Top.data, NoOutputs)
    /\ Goto("model")
    /\ UNCHANGED <<cfg, ctx, status, error, start, runs>>

\* predictions = self.runner.model(data_batch), a local of run_iter
Test_run_iter_model ==
    /\ At("test", "model")
    /\ stack' = [stack EXCEPT ![Len(stack)].pc = "process",
                              ![Len(stack)].out = Model(Top.data, FALSE)]
    /\ Emit(Ev("invoke", "pred", Top.idx, Top.data, Model(Top.data, FALSE),
               NoMetric))
    /\ UNCHANGED <<cfg, ctx, status, error, start, runs>>

\* self.evaluator.process(data_batch, predictions)
Test_run_iter_process ==
    /\ At("test", "process")
    /\ acc' = [acc EXCEPT !["test"] = Process(@, Top.data, Top.out)]
    /\ Emit(Ev("process", "test", Top.idx, Top.data, Top.out, NoMetric))
    /\ Goto("after_iter")
    /\ UNCHANGED <<cfg, epoch, iter, cur_dataloader, outputs, mode, cursor,
                   status, error, start, runs>>

\* call_hook('after_test_iter', ..., outputs=predictions); enumerate moves on
Test_run_iter_after_iter ==
    /\ At("test", "after_iter")
    /\ call_hook("after_test_iter", Top.idx, Top.data, Top.out)
    /\ stack' = [stack EXCEPT ![Len(stack)].pc = "for",
                              ![Len(stack)].idx = Top.idx + 1]
    /\ UNCHANGED <<cfg, ctx, status, error, start, runs>>

\* mutant: evaluate() is given the number of batches, len(self.dataloader)
Test_run_evaluate_Mut ==
    /\ At("test", "evaluate")
    /\ stack' = [stack EXCEPT
            ![Len(stack)].pc = "log",
            ![Len(stack)].metrics = Evaluate(acc["test"], LenOf("test"))]
    /\ acc' = [acc EXCEPT !["test"] = EvaluateReset(@)]
    /\ Emit(Ev("evaluate", "test", LenOf("test"), NoData, NoOutputs,
               Evaluate(acc["test"], LenOf("test"))))
    /\ UNCHANGED <<cfg, epoch, iter, cur_dataloader, outputs, mode, cursor,
                   status, error, start, runs>>

\* metrics = self.evaluator.evaluate(len(self.dataloader.dataset))
Test_run_evaluate ==
    /\ At("test", "evaluate")
    /\ stack' = [stack EXCEPT
            ![Len(stack)].pc = "log",
            ![Len(stack)].metrics = Evaluate(acc["test"], DatasetLen("test"))]
    /\ acc' = [acc EXCEPT !["test"] = EvaluateReset(@)]
    /\ Emit(Ev("evaluate", "test", DatasetLen("test"), NoData, NoOutputs,
               Evaluate(acc["test"], DatasetLen("test"))))
    /\ UNCHANGED <<cfg, epoch, iter, cur_dataloader, outputs, mode, cursor,
                   status, error, start, runs>>

\* for key, value in metrics.items(): update_log(f'test/{key}', value)
Test_run_log ==
    /\ At("test", "log")
    /\ events' = events \o LogEvents("test", MetricNames, Top.metrics)
    /\ Goto("after_epoch")
    /\ UNCHANGED <<cfg, ctx, status, error, start, runs>>

\* mutant: the test loop dispatches the validation loop's hook point
Test_run_after_epoch_Mut ==
    /\ At("test", "after_epoch")
    /\ call_hook("after_val_epoch", NoIdx, NoData, NoOutputs)
    /\ Goto("after")
    /\ UNCHANGED <<cfg, ctx, status, error, start, runs>>

Test_run_after_epoch ==
    /\ At("test", "after_epoch")
    /\ call_hook("after_test_epoch", NoIdx, NoData, NoOutputs)
    /\ Goto("after")
    /\ UNCHANGED <<cfg, ctx, status, error, start, runs>>

Test_run_after ==
    /\ At("test", "after")
    /\ call_hook("after_test", NoIdx, NoData, NoOutputs)
    /\ Return
    /\ UNCHANGED <<cfg, ctx, error, start, runs>>

(* --------------------------- exceptions -------------------------------- *)
\* the statements that call nothing outside the loop and so cannot raise
NoRaise == {"set_dl", "while", "iter_inc", "epoch_inc", "val_check"}

\* a hook handler, the model, the dataloader, the message hub or the
\* evaluator raises in the statement about to run
Raise ==
    /\ stack # <<>>
    /\ Top.pc \notin NoRaise
    /\ Unwind
    /\ error' = [kind |-> "raised", loop |-> Top.loop, pc |-> Top.pc,
                 depth |-> Len(stack)]
    /\ UNCHANGED <<cfg, ctx, events, start, runs>>

(* ------------------------------- Next ---------------------------------- *)
Next ==
    \/ RunTrain
    \/ RunVal
    \/ RunTest
    \/ ETL_run_set_dl
    \/ ETL_run_before_train
    \/ ETL_run_while
    \/ ETL_run_epoch_before_train_epoch
    \/ ETL_run_epoch_model_train
    \/ ETL_run_epoch_for
    \/ ETL_run_iter_before_train_iter
    \/ ETL_run_iter_model
    \/ ETL_run_iter_log
    \/ ETL_run_iter_after_train_iter
    \/ ETL_run_iter_iter_inc
    \/ ETL_run_epoch_after_train_epoch
    \/ ETL_run_epoch_epoch_inc
    \/ ETL_run_val_check
    \/ ETL_run_after_train
    \/ ITL_run_set_dl
    \/ ITL_run_before_train
    \/ ITL_run_before_train_epoch
    \/ ITL_run_while
    \/ ITL_run_model_train
    \/ ITL_run_next
    \/ ITL_run_next_StopIteration
    \/ ITL_run_iter_before_train_iter
    \/ ITL_run_iter_model
    \/ ITL_run_iter_log
    \/ ITL_run_iter_after_train_iter
    \/ ITL_run_iter_iter_inc
    \/ ITL_run_val_check
    \/ ITL_run_after_train_epoch
    \/ ITL_run_after_train
    \/ Val_run_set_dl
    \/ Val_run_before
    \/ Val_run_before_epoch
    \/ Val_run_model_eval
    \/ Val_run_for
    \/ Val_run_iter_before_iter
    \/ Val_run_iter_model
    \/ Val_run_iter_process
    \/ Val_run_iter_after_iter
    \/ Val_run_evaluate
    \/ Val_run_log
    \/ Val_run_after_epoch
    \/ Val_run_after
    \/ Test_run_set_dl
    \/ Test_run_before
    \/ Test_run_before_epoch
    \/ Test_run_model_eval
    \/ Test_run_for
    \/ Test_run_iter_before_iter
    \/ Test_run_iter_model
    \/ Test_run_iter_process
    \/ Test_run_iter_after_iter
    \/ Test_run_evaluate
    \/ Test_run_log
    \/ Test_run_after_epoch
    \/ Test_run_after
    \/ Raise

Spec == Init /\ [][Next]_vars

\* the statement the running loop is at, completing without an exception
LoopStep ==
    \/ ETL_run_set_dl
    \/ ETL_run_before_train
    \/ ETL_run_while
    \/ ETL_run_epoch_before_train_epoch
    \/ ETL_run_epoch_model_train
    \/ ETL_run_epoch_for
    \/ ETL_run_iter_before_train_iter
    \/ ETL_run_iter_model
    \/ ETL_run_iter_log
    \/ ETL_run_iter_after_train_iter
    \/ ETL_run_iter_iter_inc
    \/ ETL_run_epoch_after_train_epoch
    \/ ETL_run_epoch_epoch_inc
    \/ ETL_run_val_check
    \/ ETL_run_after_train
    \/ ITL_run_set_dl
    \/ ITL_run_before_train
    \/ ITL_run_before_train_epoch
    \/ ITL_run_while
    \/ ITL_run_model_train
    \/ ITL_run_next
    \/ ITL_run_next_StopIteration
    \/ ITL_run_iter_before_train_iter
    \/ ITL_run_iter_model
    \/ ITL_run_iter_log
    \/ ITL_run_iter_after_train_iter
    \/ ITL_run_iter_iter_inc
    \/ ITL_run_val_check
    \/ ITL_run_after_train_epoch
    \/ ITL_run_after_train
    \/ Val_run_set_dl
    \/ Val_run_before
    \/ Val_run_before_epoch
    \/ Val_run_model_eval
    \/ Val_run_for
    \/ Val_run_iter_before_iter
    \/ Val_run_iter_model
    \/ Val_run_iter_process
    \/ Val_run_iter_after_iter
    \/ Val_run_evaluate
    \/ Val_run_log
    \/ Val_run_after_epoch
    \/ Val_run_after
    \/ Test_run_set_dl
    \/ Test_run_before
    \/ Test_run_before_epoch
    \/ Test_run_model_eval
    \/ Test_run_for
    \/ Test_run_iter_before_iter
    \/ Test_run_iter_model
    \/ Test_run_iter_process
    \/ Test_run_iter_after_iter
    \/ Test_run_evaluate
    \/ Test_run_log
    \/ Test_run_after_epoch
    \/ Test_run_after

\* the interpreter keeps executing: a hook, the model, the dataloader and
\* the evaluator return (or raise), so the statement a run() is at is
\* eventually done with; the runner is not obliged to call run() again
FairSpec == Spec /\ WF_vars(LoopStep)

(* ===================== reading the record of a run ===================== *)
IsTrain(l) == l \in {"epoch", "iter"}

IsEval(l) == l \in {"val", "test"}

IsHook(e) == e.kind = "hook"

Hooks == SelectSeq(events, IsHook)

IsTrainHook(e) == e.kind = "hook" /\ IsTrain(e.loop)

TrainHooks == SelectSeq(events, IsTrainHook)

IsTrainDraw(e) == e.kind = "draw" /\ e.name = "train"

TrainDraws == SelectSeq(events, IsTrainDraw)

NameIdx(s) == [i \in 1..Len(s) |-> <<s[i].name, s[i].idx>>]

Count(s, name) == Cardinality({i \in 1..Len(s) : s[i].name = name})

IsPrefix(s, t) == Len(s) <= Len(t) /\ \A i \in 1..Len(s) : s[i] = t[i]

RECURSIVE Repeat(_, _)
Repeat(s, n) == IF n <= 0 THEN <<>> ELSE s \o Repeat(s, n - 1)

\* n before/after_train_iter pairs carrying the indices first, first+1, ...
IterPairs(first, n) ==
    [j \in 1..(2 * n) |->
        <<IF j % 2 = 1 THEN "before_train_iter" ELSE "after_train_iter",
          first + ((j - 1) \div 2)>>]

Finished(l) == status = "done" /\ start.loop = l

(* ============================== claims ================================ *)

\* C1: an EpochBasedTrainLoop.run() started at epoch 0 and iteration 0 that
\* returns leaves epoch = max_epochs and iteration = max_epochs * L, the
\* _max_iters the constructor computed.
C1_EpochRunFinalCounters ==
    (Finished("epoch") /\ start.epoch = 0 /\ start.iter = 0)
        => /\ epoch = cfg.max
           /\ iter = cfg.max * cfg.trainLen
           /\ iter = EpochMaxIters

C1_Witness ==
    /\ Finished("epoch") /\ start.epoch = 0 /\ start.iter = 0
    /\ cfg.max = 2 /\ cfg.trainLen = 2 /\ cfg.interval = 1
    /\ epoch = 2 /\ iter = 4

\* C2: the train hook points of one EpochBasedTrainLoop.run() from epoch 0
\* are before_train, then per epoch before_train_epoch, a before/after
\* _train_iter pair per batch with indices 0..L-1, after_train_epoch, and
\* after_train as the last hook of the run; a run in progress has emitted a
\* prefix of that sequence.
C2_Expected ==
    <<<<"before_train", NoIdx>>>>
        \o Repeat(<<<<"before_train_epoch", NoIdx>>>>
                      \o IterPairs(0, cfg.trainLen)
                      \o <<<<"after_train_epoch", NoIdx>>>>, cfg.max)
        \o <<<<"after_train", NoIdx>>>>

C2_EpochHookSequence ==
    (start.loop = "epoch" /\ start.epoch = 0)
        => /\ IsPrefix(NameIdx(TrainHooks), C2_Expected)
           /\ status = "done"
                => /\ NameIdx(TrainHooks) = C2_Expected
                   /\ Hooks[Len(Hooks)].name = "after_train"

C2_Witness ==
    /\ Finished("epoch") /\ start.epoch = 0
    /\ cfg.max = 2 /\ cfg.trainLen = 2 /\ cfg.interval = 1 /\ cfg.valLen = 1
    /\ Len(TrainHooks) = 14

\* C3: in an EpochBasedTrainLoop.run() with validation interval k, a
\* validation run starts right after the after_train_epoch of exactly the
\* epochs whose 1-based number is divisible by k, and nowhere else; a run
\* from epoch 0 that returns has made max_epochs div k validation runs.
C3_EpochValidationCadence ==
    LET H == Hooks
    IN
        start.loop = "epoch"
            => /\ \A i \in 1..Len(H) :
                    H[i].name = "before_val"
                        => /\ cfg.interval > 0
                           /\ i > 1
                           /\ H[i - 1].name = "after_train_epoch"
                           /\ H[i].epoch = H[i - 1].epoch + 1
                           /\ H[i].epoch % cfg.interval = 0
               /\ \A i \in 1..(Len(H) - 1) :
                    (/\ H[i].name = "after_train_epoch"
                     /\ cfg.interval > 0
                     /\ (H[i].epoch + 1) % cfg.interval = 0)
                        => H[i + 1].name = "before_val"
               /\ (status = "done" /\ start.epoch = 0)
                    => /\ Count(H, "before_val")
                            = (IF cfg.interval > 0
                               THEN cfg.max \div cfg.interval ELSE 0)
                       /\ Count(H, "after_val") = Count(H, "before_val")
                       /\ cfg.interval = 1
                            => Count(H, "before_val") = cfg.max
                       /\ cfg.interval > cfg.max
                            => Count(H, "before_val") = 0

C3_Witness ==
    /\ Finished("epoch") /\ start.epoch = 0
    /\ cfg.max = 2 /\ cfg.interval = 1
    /\ Count(Hooks, "before_val") = 2
    /\ \E i \in 1..Len(Hooks) :
            Hooks[i].name = "before_val" /\ Hooks[i].epoch = 1

\* C4: a validation run nested in a train run is atomic: while it is on the
\* stack the counters, the train loop's iterator and the train loop's frame
\* do not change and every event is the validation loop's; afterwards the
\* IterBasedTrainLoop draws the batches of its source in order, none skipped
\* or repeated, and the EpochBasedTrainLoop starts each epoch at index 0.
C4_NestedStep ==
    Len(stack) = 2
        => /\ epoch' = epoch /\ iter' = iter /\ cursor' = cursor
           /\ stack' # <<>> => stack'[1] = stack[1]

C4_TraceOk ==
    /\ \A i \in 1..Len(events) :
            events[i].depth = 2
                => /\ events[i].loop = "val"
                   /\ events[i].kind = "draw" => events[i].name = "val"
    /\ start.loop = "iter"
            => \A j \in 1..Len(TrainDraws) :
                    /\ TrainDraws[j].data = BatchOf("train", start.iter + j - 1)
                    /\ TrainDraws[j].idx = start.iter + j - 1
    /\ start.loop = "epoch"
            => \A i \in 1..(Len(events) - 1) :
                    (events[i].kind = "mode" /\ events[i].name = "train"
                        /\ events[i + 1].kind = "draw")
                            => /\ events[i + 1].idx = 0
                               /\ events[i + 1].data = BatchOf("train", 0)

C4_NestedValidationAtomic == [](C4_TraceOk) /\ [][C4_NestedStep]_vars

C4_Witness ==
    /\ Finished("iter") /\ start.iter = 0
    /\ cfg.max = 2 /\ cfg.trainLen = 2 /\ cfg.interval = 1 /\ cfg.valLen = 2
    /\ Len(TrainDraws) = 2
    /\ Count(Hooks, "after_val") = 2

\* C5: ValLoop.run() and TestLoop.run() never change runner._epoch or
\* runner._iter, standalone or nested: no step of theirs changes a counter,
\* and every event of a standalone run sees the counters the run started
\* with.
C5_EvalStep ==
    (stack # <<>> /\ IsEval(Top.loop)) => (epoch' = epoch /\ iter' = iter)

C5_TraceOk ==
    /\ IsEval(start.loop)
        => /\ epoch = start.epoch /\ iter = start.iter
           /\ \A i \in 1..Len(events) :
                events[i].epoch = start.epoch /\ events[i].iter = start.iter
    /\ \A i \in 1..(Len(events) - 1) :
            (IsEval(events[i].loop) /\ IsEval(events[i + 1].loop))
                => /\ events[i + 1].epoch = events[i].epoch
                   /\ events[i + 1].iter = events[i].iter

C5_EvalLoopsKeepCounters == [](C5_TraceOk) /\ [][C5_EvalStep]_vars

C5_Witness ==
    /\ Finished("val") /\ runs = 2
    /\ start.iter = 4 /\ start.epoch = 2 /\ iter = 4 /\ epoch = 2
    /\ cfg.valLen = 2
    /\ Count(Hooks, "after_val_iter") = 2

\* C6: runner._epoch and runner._iter never decrease over any sequence of
\* runs, and runner._iter grows only by the single increment that follows an
\* after_train_iter dispatch: it always equals its value at the start of the
\* run plus the number of training batches completed in the run.
C6_CounterStep ==
    /\ epoch' >= epoch
    /\ iter' >= iter
    /\ iter' # iter
        => /\ iter' = iter + 1
           /\ stack # <<>> /\ IsTrain(Top.loop) /\ Top.pc = "iter_inc"
           /\ events[Len(events)].name = "after_train_iter"
           /\ events' = events

C6_IncrementPending ==
    \E i \in 1..Len(stack) : stack[i].pc = "iter_inc"

C6_TraceOk ==
    /\ iter = start.iter + Count(Hooks, "after_train_iter")
                - (IF C6_IncrementPending THEN 1 ELSE 0)
    /\ Count(Hooks, "before_train_iter") - Count(Hooks, "after_train_iter")
            \in {0, 1}
    /\ epoch >= start.epoch

C6_CountersMonotone == [](C6_TraceOk) /\ [][C6_CounterStep]_vars

C6_Witness ==
    /\ Finished("test") /\ runs = 2
    /\ cfg.regime = "iter" /\ cfg.interval = 1
    /\ iter = 2 /\ start.iter = 2

\* C7: an IterBasedTrainLoop.run() from iteration 0 over a source of at
\* least max_iters batches never hits exhaustion, and when it returns
\* iteration = max_iters and its train hooks were before_train,
\* before_train_epoch, max_iters before/after_train_iter pairs with indices
\* 0..max_iters-1, each equal to runner._iter at the call, after_train_epoch,
\* after_train.
C7_Expected ==
    <<<<"before_train", NoIdx>>, <<"before_train_epoch", NoIdx>>>>
        \o IterPairs(0, cfg.max)
        \o <<<<"after_train_epoch", NoIdx>>, <<"after_train", NoIdx>>>>

C7_IterRunWithEnoughBatches ==
    (start.loop = "iter" /\ start.iter = 0 /\ cfg.trainLen >= cfg.max)
        => /\ error.kind # "StopIteration"
           /\ IsPrefix(NameIdx(TrainHooks), C7_Expected)
           /\ \A i \in 1..Len(TrainHooks) :
                TrainHooks[i].name \in {"before_train_iter", "after_train_iter"}
                    => TrainHooks[i].idx = TrainHooks[i].iter
           /\ status = "done"
                => /\ iter = cfg.max
                   /\ NameIdx(TrainHooks) = C7_Expected

C7_Witness ==
    /\ Finished("iter") /\ start.iter = 0
    /\ cfg.max = 2 /\ cfg.trainLen = 2
    /\ iter = 2

\* C8: an IterBasedTrainLoop.run() (it starts at iteration 0, no earlier
\* run having trained) with max_iters greater
\* than the B batches of its source never returns normally; it draws each
\* batch at most once, in order, and invokes the model and the iteration
\* hooks for at most B batches; StopIteration is raised by the draw after B
\* completed iterations.
C8_IterRunExhaustion ==
    (start.loop = "iter" /\ cfg.max > cfg.trainLen)
        => /\ status # "done"
           /\ start.iter = 0
           /\ Len(TrainDraws) <= cfg.trainLen
           /\ \A j \in 1..Len(TrainDraws) :
                TrainDraws[j].data = BatchOf("train", j - 1)
           /\ Count(Hooks, "before_train_iter") <= Len(TrainDraws)
           /\ Count(Hooks, "after_train_iter") <= Len(TrainDraws)
           /\ Cardinality({i \in 1..Len(events) :
                    events[i].kind = "invoke" /\ events[i].name = "loss"})
                <= Len(TrainDraws)
           /\ error.kind = "StopIteration"
                => /\ status = "failed"
                   /\ iter = cfg.trainLen
                   /\ Len(TrainDraws) = cfg.trainLen
                   /\ Count(Hooks, "before_train_iter") = cfg.trainLen
                   /\ Count(Hooks, "after_train_iter") = cfg.trainLen
                   /\ iter < cfg.max

C8_Witness ==
    /\ start.loop = "iter" /\ start.iter = 0
    /\ cfg.max = 2 /\ cfg.trainLen = 1
    /\ error.kind = "StopIteration"
    /\ iter = 1

\* C9: a failure aborts the whole run at once: the step that raises leaves
\* no frame on the stack (also when it is raised inside a nested validation
\* run), dispatches nothing and changes no counter, and after it nothing
\* more is dispatched, drawn or counted.
C9_FailStep ==
    /\ status' = "failed"
        => /\ stack' = <<>>
           /\ events' = events
           /\ epoch' = epoch /\ iter' = iter /\ cursor' = cursor
    /\ status = "failed" => status' = "failed"

C9_FailureAbortsRun == [][C9_FailStep]_vars

C9_Witness ==
    /\ status = "failed"
    /\ error.depth = 2 /\ error.loop = "val" /\ error.pc = "after_iter"
    /\ start.loop = "epoch"
    /\ epoch = 1 /\ iter = 2
    /\ stack = <<>>

\* C10: the events of every ValLoop.run() and TestLoop.run() over B batches
\* are before_<r>, before_<r>_epoch, then per batch 0..B-1 before_<r>_iter,
\* one inference call of the model, one evaluator.process of the batch and
\* its predictions, after_<r>_iter with those predictions, then one
\* evaluator.evaluate, after_<r>_epoch, after_<r>; a run in progress has
\* emitted a prefix of that.
C10_Kinds == {"hook", "invoke", "process", "evaluate"}

C10_IsEvalEvent(e) == IsEval(e.loop) /\ e.kind \in C10_Kinds

C10_Observed(e) ==
    <<e.kind, e.name, IF e.kind = "evaluate" THEN NoIdx ELSE e.idx,
      e.data, e.out>>

C10_Batch(r, i) ==
    <<<<"hook", "before_" \o r \o "_iter", i, BatchOf(r, i), NoOutputs>>,
      <<"invoke", "pred", i, BatchOf(r, i), Model(BatchOf(r, i), FALSE)>>,
      <<"process", r, i, BatchOf(r, i), Model(BatchOf(r, i), FALSE)>>,
      <<"hook", "after_" \o r \o "_iter", i, BatchOf(r, i),
        Model(BatchOf(r, i), FALSE)>>>>

RECURSIVE C10_Batches(_, _, _)
C10_Batches(r, i, n) ==
    IF i >= n THEN <<>> ELSE C10_Batch(r, i) \o C10_Batches(r, i + 1, n)

C10_Expected(r) ==
    <<<<"hook", "before_" \o r, NoIdx, NoData, NoOutputs>>,
      <<"hook", "before_" \o r \o "_epoch", NoIdx, NoData, NoOutputs>>>>
        \o C10_Batches(r, 0, LenOf(r))
        \o <<<<"evaluate", r, NoIdx, NoData, NoOutputs>>,
             <<"hook", "after_" \o r \o "_epoch", NoIdx, NoData, NoOutputs>>,
             <<"hook", "after_" \o r, NoIdx, NoData, NoOutputs>>>>

\* the evaluation loop the current top-level run can enter
C10_Regime == IF start.loop = "test" THEN "test" ELSE "val"

C10_EvalRunning == \E i \in 1..Len(stack) : IsEval(stack[i].loop)

C10_EvalEventSequence ==
    LET E == SelectSeq(events, C10_IsEvalEvent)
        X == C10_Expected(C10_Regime)
    IN  /\ \A i \in 1..Len(E) :
                C10_Observed(E[i]) = X[((i - 1) % Len(X)) + 1]
        /\ (status # "failed" /\ ~C10_EvalRunning) => Len(E) % Len(X) = 0
        /\ (status = "done" /\ IsEval(start.loop)) => Len(E) = Len(X)

C10_Witness ==
    /\ Finished("test")
    /\ cfg.testLen = 2
    /\ Count(Hooks, "after_test_iter") = 2
    /\ Cardinality({i \in 1..Len(events) : events[i].kind = "process"}) = 2

\* C11: every evaluator.evaluate() of a ValLoop or TestLoop run, standalone
\* or nested, sees exactly the batches accumulated in its own pass, and a
\* ValLoop.run() that directly follows a ValLoop.run() computes the same
\* metrics as that one.
C11_PassBatches(r) == [i \in 1..LenOf(r) |-> BatchOf(r, i - 1)]

C11_EvaluationIdempotent ==
    /\ \A i \in 1..Len(events) :
            events[i].kind = "evaluate"
                => events[i].val
                     = Evaluate(C11_PassBatches(events[i].loop),
                                DatasetLen(events[i].loop))
    /\ (Finished("val") /\ start.prevLoop = "val")
            => LastEvaluate = start.prevMetrics

C11_Witness ==
    /\ Finished("val") /\ start.prevLoop = "val"
    /\ cfg.valLen = 2
    /\ Len(start.prevMetrics.batches) = 2
    /\ LastEvaluate = start.prevMetrics

\* C12: evaluator.evaluate() is called with the number of samples of the
\* loop's dataset, and each metric it returns is logged once, in order, under
\* the running loop's prefix with the returned value; a TestLoop run logs
\* exactly one test/<name> per metric and no train/ or val/ key, a ValLoop
\* run exactly one val/<name> per metric and no train/ or test/ key.
C12_IsEvalLog(e) == e.kind = "log" /\ IsEval(e.loop)

C12_IsEvalResult(e) == IsEval(e.loop) /\ e.kind \in {"evaluate", "log"}

\* evaluate() has returned and its metrics are not logged: the loop is
\* about to log them, or the logging raised
C12_LogPending ==
    \/ \E i \in 1..Len(stack) : stack[i].pc = "log" /\ IsEval(stack[i].loop)
    \/ status = "failed" /\ error.pc = "log" /\ IsEval(error.loop)

C12_MetricLogging ==
    LET n  == Len(MetricNames)
        R  == SelectSeq(events, C12_IsEvalResult)
        Lg == SelectSeq(events, C12_IsEvalLog)
        Es == SelectSeq(events, IsEvaluate)
    IN  /\ \A i \in 1..Len(Es) :
                /\ Es[i].idx = DatasetLen(Es[i].loop)
                /\ Es[i].idx = LenOf(Es[i].loop) * BatchSize
                /\ Es[i].val.size = Es[i].idx
        \* R is evaluate, log, ..., log (n of them), evaluate, log, ...
        /\ \A i \in 1..Len(R) :
                LET k == (i - 1) % (n + 1)
                IN  IF k = 0
                    THEN R[i].kind = "evaluate"
                    ELSE /\ R[i].kind = "log"
                         /\ R[i].name = R[i].loop
                         /\ R[i].key = MetricNames[k]
                         /\ R[i].val = R[i - k].val
        /\ Len(Lg) = n * (Len(Es) - (IF C12_LogPending THEN 1 ELSE 0))
        /\ IsEval(start.loop)
            => /\ \A i \in 1..Len(events) :
                    events[i].kind = "log" => events[i].name = start.loop
               /\ status = "done"
                    => /\ Len(Lg) = n
                       /\ \A k \in 1..n :
                            Cardinality({i \in 1..Len(Lg) :
                                Lg[i].key = MetricNames[k]}) = 1

C12_Witness ==
    /\ Finished("test")
    /\ cfg.testLen = 2
    /\ DatasetLen("test") = 4
    /\ \E i \in 1..Len(events) :
            events[i].kind = "evaluate" /\ events[i].idx = 4
    /\ Cardinality({i \in 1..Len(events) :
            events[i].kind = "log" /\ events[i].name = "test"}) = 2

\* C13: in an IterBasedTrainLoop.run() with validation interval k, a
\* validation run starts right after the training step that brings
\* runner._iter to a multiple of k, before anything else happens (the next
\* draw, after_train_epoch, after_train), and nowhere else; a run from
\* iteration 0 that returns has made max_iters div k validation runs.
C13_IterValidationCadence ==
    start.loop = "iter"
        => /\ \A i \in 1..Len(events) :
                (IsHook(events[i]) /\ events[i].name = "before_val")
                    => /\ cfg.interval > 0
                       /\ i > 1
                       /\ IsHook(events[i - 1])
                       /\ events[i - 1].name = "after_train_iter"
                       /\ events[i].iter = events[i - 1].iter + 1
                       /\ events[i].iter % cfg.interval = 0
           /\ \A i \in 1..(Len(events) - 1) :
                (/\ IsHook(events[i])
                 /\ events[i].name = "after_train_iter"
                 /\ cfg.interval > 0
                 /\ (events[i].iter + 1) % cfg.interval = 0)
                    => /\ IsHook(events[i + 1])
                       /\ events[i + 1].name = "before_val"
           /\ (status = "done" /\ start.iter = 0)
                => /\ Count(Hooks, "before_val")
                        = (IF cfg.interval > 0
                           THEN cfg.max \div cfg.interval ELSE 0)
                   /\ Count(Hooks, "after_val") = Count(Hooks, "before_val")

C13_Witness ==
    /\ Finished("iter") /\ start.iter = 0
    /\ cfg.max = 2 /\ cfg.interval = 2
    /\ Count(Hooks, "before_val") = 1
    /\ \E i \in 1..(Len(Hooks) - 1) :
            Hooks[i].name = "after_val"
                /\ Hooks[i + 1].name = "after_train_epoch"

\* C14: at every hook dispatch runner.cur_dataloader is the dataloader of
\* the loop whose hook point is dispatched: the train dataloader at train
\* hook points, also after a nested validation run has returned, and the
\* val/test dataloader at val/test hook points.
C14_LoaderOf(l) == IF IsTrain(l) THEN "train" ELSE l

C14_ActiveDataSourceInFlight ==
    \A i \in 1..Len(Hooks) : Hooks[i].dl = C14_LoaderOf(Hooks[i].loop)

\* C15: at every after_train_iter, after_val_iter and after_test_iter
\* dispatch runner.outputs is the result of the latest call of the model, the
\* value passed to the hook as outputs.
C15_IsAfterIter(e) ==
    e.name \in {"after_train_iter", "after_val_iter", "after_test_iter"}

C15_LastOutputsAtAfterIter ==
    \A i \in 1..Len(Hooks) :
        C15_IsAfterIter(Hooks[i]) => Hooks[i].lastOut = Hooks[i].out

\* C16: the counters are incremented after the dispatch: in both train
\* loops before_train_iter and after_train_iter of a batch see the same
\* runner._iter, the number of batches completed before it; in the
\* EpochBasedTrainLoop after_train_epoch sees the 0-based index of the epoch
\* just run, and every hook of the validation run nested after it sees that
\* index plus one.
C16_Before(H, i, name) == Cardinality({j \in 1..(i - 1) : H[j].name = name})

C16_IncrementAfterDispatch ==
    LET H == Hooks
    IN  IsTrain(start.loop)
            => \A i \in 1..Len(H) :
                /\ H[i].name \in {"before_train_iter", "after_train_iter"}
                    => H[i].iter = start.iter + C16_Before(H, i, "after_train_iter")
                /\ H[i].name = "after_train_iter"
                    => /\ H[i - 1].name = "before_train_iter"
                       /\ H[i - 1].iter = H[i].iter
                       /\ H[i - 1].data = H[i].data
                /\ (start.loop = "epoch" /\ H[i].name = "after_train_epoch")
                    => H[i].epoch
                         = start.epoch + C16_Before(H, i, "after_train_epoch")
                /\ (start.loop = "epoch" /\ H[i].loop = "val")
                    => /\ C16_Before(H, i, "after_train_epoch") >= 1
                       /\ H[i].epoch
                            = start.epoch + C16_Before(H, i, "after_train_epoch")

C16_Witness ==
    /\ Finished("epoch") /\ start.epoch = 0 /\ start.iter = 0
    /\ cfg.max = 2 /\ cfg.trainLen = 2 /\ cfg.interval = 1 /\ cfg.valLen = 1
    /\ \E i \in 1..Len(Hooks) :
            /\ Hooks[i].name = "after_train_epoch" /\ Hooks[i].epoch = 1
            /\ Hooks[i + 1].name = "before_val" /\ Hooks[i + 1].epoch = 2
    /\ \E i \in 1..Len(Hooks) :
            Hooks[i].name = "after_train_iter" /\ Hooks[i].iter = 3

\* C17: every loss-returning call of the model is made by a train loop with
\* the model in training mode, also for the first batch after a nested
\* validation run, and every inference call is made by ValLoop/TestLoop with
\* the model in evaluation mode.
C17_IsInvoke(e) == e.kind = "invoke"

C17_ModeMatchesInvocation ==
    LET V == SelectSeq(events, C17_IsInvoke)
    IN  \A i \in 1..Len(V) :
            /\ V[i].name = "loss" <=> IsTrain(V[i].loop)
            /\ V[i].name = "pred" <=> IsEval(V[i].loop)
            /\ V[i].name = "loss" => V[i].mode = "train"
            /\ V[i].name = "pred" => V[i].mode = "eval"

C17_Witness ==
    LET V == SelectSeq(events, C17_IsInvoke)
    IN  /\ Finished("iter")
        /\ cfg.interval = 1 /\ cfg.valLen = 1 /\ cfg.max = 2
        /\ Len(V) = 4
        /\ V[2].name = "pred" /\ V[2].mode = "eval"
        /\ V[3].name = "loss" /\ V[3].mode = "train"

\* C18: a train loop whose counter has reached its maximum is terminal: an
\* EpochBasedTrainLoop.run() entered with epoch >= max_epochs dispatches only
\* before_train and after_train, an IterBasedTrainLoop.run() entered with
\* iteration >= max_iters only before_train, before_train_epoch,
\* after_train_epoch, after_train; neither draws a batch, calls the model,
\* runs a validation or changes a counter.
C18_EpochTerminal ==
    <<<<"before_train", NoIdx>>, <<"after_train", NoIdx>>>>

C18_IterTerminal ==
    <<<<"before_train", NoIdx>>, <<"before_train_epoch", NoIdx>>,
      <<"after_train_epoch", NoIdx>>, <<"after_train", NoIdx>>>>

C18_Expected ==
    IF start.loop = "epoch" THEN C18_EpochTerminal ELSE C18_IterTerminal

C18_Exhausted ==
    \/ start.loop = "epoch" /\ start.epoch >= cfg.max
    \/ start.loop = "iter" /\ start.iter >= cfg.max

C18_TerminalTrainLoop ==
    C18_Exhausted
        => /\ \A i \in 1..Len(events) :
                IsHook(events[i]) /\ IsTrain(events[i].loop)
           /\ IsPrefix(NameIdx(Hooks), C18_Expected)
           /\ status = "done" => NameIdx(Hooks) = C18_Expected
           /\ Len(stack) <= 1
           /\ epoch = start.epoch /\ iter = start.iter

C18_Witness ==
    /\ Finished("epoch") /\ start.prevLoop = "epoch"
    /\ cfg.max = 2 /\ cfg.trainLen = 2 /\ cfg.interval = 1
    /\ start.epoch = 2 /\ start.iter = 4
    /\ Len(events) = 2

\* C19: every train run ends: with calls that return, an
\* EpochBasedTrainLoop.run() or IterBasedTrainLoop.run() in progress
\* eventually has dispatched after_train and returned, or has raised; and it
\* returns only with its counter at (or above) its maximum.
C19_ReturnedNormally ==
    /\ status = "done"
    /\ Hooks # <<>>
    /\ Hooks[Len(Hooks)].name = "after_train"

C19_CounterDefinedEnd ==
    /\ Finished("epoch") => (epoch >= cfg.max /\ C19_ReturnedNormally)
    /\ Finished("iter") => (iter >= cfg.max /\ C19_ReturnedNormally)

C19_EveryRunEnds ==
    /\ [](C19_CounterDefinedEnd)
    /\ (status = "running" /\ IsTrain(start.loop))
            ~> (status = "failed" \/ C19_ReturnedNormally)

C19_Witness ==
    /\ Finished("iter") /\ C19_ReturnedNormally
    /\ start.iter = 0 /\ iter = 2
    /\ cfg.max = 2 /\ cfg.trainLen = 2 /\ cfg.interval = 2 /\ cfg.valLen = 2

\* C20: in an EpochBasedTrainLoop.run() from epoch 0 the first validation
\* run happens after the epoch with 0-based index 1, not after index 0, for
\* every positive interval.  (The statement as claimed; the code does
\* otherwise, see C20_FirstValidationAfterIntervalEpochs.)
C20_IsFirstVal(H, i) ==
    /\ H[i].name = "before_val"
    /\ \A j \in 1..(i - 1) : H[j].name # "before_val"

C20_FirstValidationAfterEpochIndex1 ==
    LET H == Hooks
    IN
        (start.loop = "epoch" /\ start.epoch = 0)
            => \A i \in 1..Len(H) :
                    C20_IsFirstVal(H, i)
                        => /\ H[i].epoch = 2
                           /\ H[i - 1].name = "after_train_epoch"
                           /\ H[i - 1].epoch = 1

\* C20 (amended): in an EpochBasedTrainLoop.run() from epoch 0 with
\* validation interval k the first validation run happens after the epoch
\* with 0-based index k - 1, when runner._epoch has just become k: after the
\* very first epoch (index 0) for k = 1, after index 1 only for k = 2.
C20_FirstValidationAfterIntervalEpochs ==
    LET H == Hooks
    IN
        (start.loop = "epoch" /\ start.epoch = 0)
            => \A i \in 1..Len(H) :
                    C20_IsFirstVal(H, i)
                        => /\ H[i].epoch = cfg.interval
                           /\ H[i - 1].name = "after_train_epoch"
                           /\ H[i - 1].epoch = cfg.interval - 1

C20_Witness ==
    LET H == Hooks
    IN
        /\ Finished("epoch") /\ start.epoch = 0
        /\ cfg.interval = 1 /\ cfg.max = 2
        /\ \E i \in 1..Len(H) :
                /\ C20_IsFirstVal(H, i)
                /\ H[i].epoch = 1
                /\ H[i - 1].name = "after_train_epoch"
                /\ H[i - 1].epoch = 0

====
